---- MODULE Spec2Model ----
(***************************************************************************)
(* Model of the RPG game client (src/src/GameClient): the credential       *)
(* handling of GrpcClient, the retry policy of WorldClient and the entity  *)
(* reconciliation of GameScreen.                                           *)
(*                                                                         *)
(* Time is the wall clock of time.time(), in seconds.  Tokens are opaque   *)
(* strings in the code; here the n-th token pair the auth service issues   *)
(* is the number n, and 0 stands for None / the empty string.              *)
(***************************************************************************)
EXTENDS Integers, Sequences, FiniteSets, TLC

\* ---------------------------------------------------------------- bounds
MaxTime == 40          \* the clock stops advancing here
TimeStep == 10         \* one Tick of the clock
MaxGen == 2            \* token pairs the auth service issues in one run
AccessLife == 20       \* lifetime the service gives an access token
RefreshLife == 60      \* lifetime the service gives a renewal token

\* ------------------------------------------------------ program constants
JwtSkew == 10          \* _is_jwt_valid: time.time() < expires_at - 10
RefreshSkew == 30      \* _ensure_jwt: time.time() < refresh_expires_at - 30

MaxQueue == 1          \* updates a producer has waiting in its queue
MaxRoster == 2         \* players in one world-state response
MaxDiff == 1           \* updated entities, and removed ids, in one stream update
MaxSent == 2           \* messages the two workers receive from the server in one run
MaxErrors == 6         \* consecutive_errors is counted up to here (2 ** min(n, 5): more changes nothing)
MaxAuthRetries == 3    \* consecutive auth-rejected stream attempts are counted up to here
MaxSessions == 2       \* join handshakes in one run

\* get_world_updates_stream: min(5.0, (2 ** min(consecutive_errors, 5)) * 0.25),
\* then * (0.7 + random.random() * 0.6).  Delays are in milliseconds.
BackoffCeiling == 5000
BackoffUnit == 250
BackoffMaxExp == 5

NoToken == 0
NoThread == "none"
GameThread == "game"
StreamThread == "stream"
Threads == {GameThread, StreamThread}

\* grpc.StatusCode values the calls are answered with
Transient == {"UNAVAILABLE", "DEADLINE_EXCEEDED", "INTERNAL", "CANCELLED"}
StatusCodes == {"OK", "UNAUTHENTICATED", "PERMISSION_DENIED"} \cup Transient

VARIABLES
    now,          \* time.time()
    cred,         \* GrpcClient._jwt_token, _jwt_expires_at, _refresh_token, _refresh_expires_at
    lock,         \* holder of GrpcClient._lock (threading.Lock, not reentrant)
    connected,    \* GrpcClient.channel is not None
    auth_token,   \* Game.auth_token, the copy of the access token the screens pass around
    issuedAt,     \* auth service: issue time of each token pair, -1 when not issued
    pc,           \* per thread: position in the running operation
    op,           \* per thread: the operation that is running
    site,         \* per thread: the call site of authenticated_metadata() being served
    bearer,       \* per thread: the token of the metadata of the next dispatch
    dispatches,   \* per thread: token and status of each dispatch of the running call, in order
    result,       \* per thread: what the operation handed to its caller
    refreshResp,  \* per thread: the RefreshToken exchange of the running _ensure_jwt
    reqRefresh,   \* per thread: the renewal token of the RefreshTokenRequest in flight
    ejRet,        \* per thread: _ensure_jwt's outcome, 0 running, -1 raised, else the token returned
    loginGen,     \* per thread: token pair carried by the Login response
    startExpired  \* per thread: the operation began with an expired access token and a usable renewal token

authVars == <<now, cred, lock, connected, auth_token, issuedAt, pc, op, site, bearer,
              dispatches, result, refreshResp, reqRefresh, ejRet, loginGen, startExpired>>

VARIABLES
    store,                       \* EntityManager.entities: id -> Entity (NoEntity: no such key)
    local_player,                \* GameScreen.local_player, the Entity object
    localInStore,                \* entities[local_player.id] is the local_player object itself
    world_joined,                \* the join handshake has succeeded
    world_updates_running,       \* flag of the polling worker
    world_entity_updates_running,\* flag of the streaming worker
    world_updates_queue,         \* queue.Queue of ('player_updates', players)
    world_entity_updates_queue,  \* queue.Queue of stream updates
    gphase,                      \* position of the game loop inside GameScreen.update
    sent                         \* messages received from the server so far

storeVars == <<store, local_player, localInStore, world_joined, world_updates_running,
               world_entity_updates_running, world_updates_queue,
               world_entity_updates_queue, gphase, sent>>

VARIABLES
    consecutive_errors,  \* get_world_updates_stream: consecutive_errors
    on_reconnect,        \* get_world_updates_stream: a callback was passed (TRUE) or None (FALSE)
    sleep,               \* seen through on_reconnect: the last backoff since the last message
    auth_retries         \* seen through on_reconnect: 'unauthenticated' events in a row

streamVars == <<consecutive_errors, on_reconnect, sleep, auth_retries>>

VARIABLES
    session,               \* join handshakes that have succeeded so far: the current session
    poll_pc,               \* per session: position of the polling worker thread it started
    poll_resp,             \* per session: what get_world_state returned to that worker
    sw_pc,                 \* per session: position of the streaming worker thread it started
    sw_held,               \* per session: the session in which the update that worker holds arrived, 0 for none
    updates_origin,        \* for each entry of world_updates_queue: the session of the worker that fetched it
    entity_updates_origin, \* the same for world_entity_updates_queue
    needs_sync,            \* local_player.needs_sync, the dirty flag
    last_sync,             \* local_player.last_sync
    move_response,         \* how the last _move_player_on_server ended
    last_auto_sync,        \* GameScreen.last_auto_sync, -1 for the 0 of __init__ (long ago)
    last_push              \* the last auto-sync: [dirty, success], or NoPush

workerVars == <<poll_pc, poll_resp, sw_pc, sw_held>>
originVars == <<updates_origin, entity_updates_origin>>
moveVars == <<needs_sync, last_sync, move_response, last_auto_sync, last_push>>
sessVars == <<session, workerVars, originVars, moveVars>>

vars == <<authVars, storeVars, streamVars, sessVars>>

EmptyCred == [jwt |-> NoToken, jwtExp |-> 0, refresh |-> NoToken, refreshExp |-> 0]

\* The four credential fields as the service hands them out at time `at`.
IssuedCred(g, at) ==
    [jwt |-> g, jwtExp |-> at + AccessLife, refresh |-> g, refreshExp |-> at + RefreshLife]

\* ------------------------------------------------------- the auth service
ServerAccessValid(tok) ==
    /\ tok \in 1..MaxGen
    /\ issuedAt[tok] >= 0
    /\ now < issuedAt[tok] + AccessLife

ServerRefreshValid(tok) ==
    /\ tok \in 1..MaxGen
    /\ issuedAt[tok] >= 0
    /\ now < issuedAt[tok] + RefreshLife

NextGen == Cardinality({g \in 1..MaxGen : issuedAt[g] >= 0}) + 1

\* An authenticated call is answered OK only for a token the service accepts;
\* it may fail with any status for any token (revocation, network).
RpcOutcomes(tok) ==
    IF ServerAccessValid(tok) THEN StatusCodes ELSE StatusCodes \ {"OK"}

\* ------------------------------------------------------------- GrpcClient
\* (variant: the validity check without the safety margin)
IsJwtValid_NoSkew ==
    /\ cred.jwt # NoToken
    /\ now < cred.jwtExp

IsJwtValid ==
    /\ cred.jwt # NoToken
    /\ now < cred.jwtExp - JwtSkew

RefreshUsable ==
    /\ cred.refresh # NoToken
    /\ now < cred.refreshExp - RefreshSkew

Upd(f, t, v) == [f EXCEPT ![t] = v]

\* ---- the backoff arithmetic of get_world_updates_stream
NoSleep == [kind |-> "none", raw |-> 0, slept |-> 0]

Min(a, b) == IF a < b THEN a ELSE b

RECURSIVE Pow2(_)
Pow2(n) == IF n = 0 THEN 1 ELSE 2 * Pow2(n - 1)

\* min(5.0, (2 ** min(consecutive_errors, 5)) * 0.25)
Backoff(n) == Min(BackoffCeiling, Pow2(Min(n, BackoffMaxExp)) * BackoffUnit)

\* 0.7 + random.random() * 0.6, in percent: the least, the middle and the
\* greatest factor (random() < 1)
JitterPercents == {70, 100, 129}
Jittered(raw, pct) == (raw * pct) \div 100

\* consecutive_errors += 1
CountError(n) == Min(n + 1, MaxErrors)

\* if on_reconnect: on_reconnect({...}): what the callback gets to see
Seen(v, unseen) == IF on_reconnect THEN v ELSE unseen

\* authenticated_metadata() is entered at call site s: _ensure_jwt starts.
CallEnsure(t, s) ==
    /\ pc' = Upd(pc, t, "ej_lock")
    /\ site' = Upd(site, t, s)
    /\ ejRet' = Upd(ejRet, t, 0)
    /\ refreshResp' = Upd(refreshResp, t, "none")

\* The operation of thread t ends and hands r to its caller.
Finish(t, r) ==
    /\ pc' = Upd(pc, t, "done")
    /\ result' = Upd(result, t, r)

\* _ensure_jwt returns tok: control is back at the call site.
EnsureReturns(t, tok) ==
    /\ ejRet' = Upd(ejRet, t, tok)
    /\ pc' = Upd(pc, t, CASE site[t] \in {"first", "retry"} -> "cw_dispatch"
                          [] site[t] = "move" -> "mv_dispatch"
                          [] site[t] = "logout" -> "logout_rpc"
                          [] site[t] = "st_sub" -> "st_open"
                          [] OTHER -> "st_top")
    /\ bearer' = IF site[t] = "st_reauth" THEN bearer ELSE Upd(bearer, t, tok)
    /\ UNCHANGED <<site, result>>

\* _ensure_jwt raises RuntimeError: the call site's handler runs.
EnsureRaises(t) ==
    /\ ejRet' = Upd(ejRet, t, -1)
    /\ pc' = Upd(pc, t, CASE site[t] \in {"first", "retry", "move"} -> "done"
                          [] site[t] = "logout" -> "clear"
                          [] site[t] = "st_sub" -> "st_backoff"
                          [] OTHER -> "done")
    /\ result' = CASE site[t] \in {"first", "retry", "move"} -> Upd(result, t, "AuthExpired")
                   [] site[t] = "st_reauth" -> Upd(result, t, "auth_failed")
                   [] OTHER -> result
    /\ UNCHANGED <<site, bearer>>
    /\ IF site[t] = "st_sub"
       THEN \* except Exception: consecutive_errors += 1, backoff without jitter
            /\ consecutive_errors' = CountError(consecutive_errors)
            /\ sleep' = Seen([kind |-> "exception",
                              raw |-> Backoff(CountError(consecutive_errors)),
                              slept |-> Backoff(CountError(consecutive_errors))], NoSleep)
            /\ auth_retries' = 0
            /\ UNCHANGED on_reconnect
       ELSE UNCHANGED streamVars

\* with self._lock: in _ensure_jwt
EnsureAcquire(t) ==
    /\ pc[t] = "ej_lock"
    /\ lock = NoThread
    /\ lock' = t
    /\ pc' = Upd(pc, t, "ej_check")
    /\ UNCHANGED <<now, cred, connected, auth_token, issuedAt, op, site, bearer, dispatches,
                   result, refreshResp, reqRefresh, ejRet, loginGen, startExpired>>
    /\ UNCHANGED <<storeVars, streamVars, sessVars>>

\* if self._is_jwt_valid(): return self._jwt_token
EnsureValid(t) ==
    /\ pc[t] = "ej_check"
    /\ IsJwtValid
    /\ lock' = NoThread
    /\ EnsureReturns(t, cred.jwt)
    /\ UNCHANGED <<now, cred, connected, auth_token, issuedAt, op, dispatches,
                   refreshResp, reqRefresh, loginGen, startExpired>>
    /\ UNCHANGED <<storeVars, streamVars, sessVars>>

\* the renewal branch: the RefreshToken request is sent, the lock stays held
EnsureRefreshCall(t) ==
    /\ pc[t] = "ej_check"
    /\ ~IsJwtValid
    /\ RefreshUsable
    /\ pc' = Upd(pc, t, "ej_rpc")
    /\ refreshResp' = Upd(refreshResp, t, "sent")
    /\ reqRefresh' = Upd(reqRefresh, t, cred.refresh)
    /\ UNCHANGED <<now, cred, lock, connected, auth_token, issuedAt, op, site, bearer,
                   dispatches, result, ejRet, loginGen, startExpired>>
    /\ UNCHANGED <<storeVars, streamVars, sessVars>>

\* neither a valid token nor a usable renewal token: raise RuntimeError
EnsureNoRefresh(t) ==
    /\ pc[t] = "ej_check"
    /\ ~IsJwtValid
    /\ ~RefreshUsable
    /\ lock' = NoThread
    /\ EnsureRaises(t)
    /\ UNCHANGED <<now, cred, connected, auth_token, issuedAt, op, dispatches,
                   refreshResp, reqRefresh, loginGen, startExpired>>
    /\ UNCHANGED <<storeVars, sessVars>>

\* resp.success: the four fields are replaced, then self._save_tokens() is called
EnsureRefreshOk(t) ==
    /\ pc[t] = "ej_rpc"
    /\ ServerRefreshValid(reqRefresh[t])
    /\ NextGen <= MaxGen
    /\ issuedAt' = [issuedAt EXCEPT ![NextGen] = now]
    /\ cred' = IssuedCred(NextGen, now)
    /\ refreshResp' = Upd(refreshResp, t, "ok")
    /\ pc' = Upd(pc, t, "ej_save")
    /\ UNCHANGED <<now, lock, connected, auth_token, op, site, bearer, dispatches,
                   result, reqRefresh, ejRet, loginGen, startExpired>>
    /\ UNCHANGED <<storeVars, streamVars, sessVars>>

\* (variant: a failed renewal also drops the stored credential)
EnsureRefreshFailed_Clears(t, kind) ==
    /\ pc[t] = "ej_rpc"
    /\ refreshResp' = Upd(refreshResp, t, kind)
    /\ cred' = EmptyCred
    /\ lock' = NoThread
    /\ EnsureRaises(t)
    /\ UNCHANGED <<now, connected, auth_token, issuedAt, op, dispatches,
                   reqRefresh, loginGen, startExpired>>
    /\ UNCHANGED <<storeVars, sessVars>>

\* resp.success false ("fail") or the RPC raising ("error"): falls through to the raise
EnsureRefreshFailed(t, kind) ==
    /\ pc[t] = "ej_rpc"
    /\ refreshResp' = Upd(refreshResp, t, kind)
    /\ lock' = NoThread
    /\ EnsureRaises(t)
    /\ UNCHANGED <<now, cred, connected, auth_token, issuedAt, op, dispatches,
                   reqRefresh, loginGen, startExpired>>
    /\ UNCHANGED <<storeVars, sessVars>>

\* _save_tokens(): with self._lock: write the token file.  Called by _ensure_jwt
\* (which still holds the lock) and by login (which does not).
SaveTokens(t) ==
    /\ pc[t] \in {"ej_save", "login_save"}
    /\ lock = NoThread
    /\ IF pc[t] = "ej_save"
       THEN /\ EnsureReturns(t, cred.jwt)
            /\ UNCHANGED auth_token
       ELSE /\ Finish(t, "OK")
            /\ auth_token' = IF loginGen[t] # NoToken THEN loginGen[t] ELSE auth_token
            /\ UNCHANGED <<site, bearer, ejRet>>
    /\ UNCHANGED <<now, cred, lock, connected, issuedAt, op, dispatches,
                   refreshResp, reqRefresh, loginGen, startExpired>>
    /\ UNCHANGED <<storeVars, streamVars, sessVars>>

\* --------------------------------------------------- GrpcClient: connection
\* _ensure_connection(): with self._lock: open the channel if there is none.
\* Afterwards the operation goes on: login sends Login, move_player builds its
\* metadata (authenticated_metadata() if token is None), logout sends Logout
\* (with authenticated_metadata() if self._jwt_token).
EnsureConnectionOk(t) ==
    /\ pc[t] = "conn"
    /\ lock = NoThread
    /\ connected' = TRUE
    /\ CASE op[t] = "login" ->
              /\ pc' = Upd(pc, t, "login_rpc")
              /\ UNCHANGED <<site, ejRet, refreshResp, bearer>>
         [] op[t] = "move" ->
              IF bearer[t] = NoToken
              THEN CallEnsure(t, "move") /\ UNCHANGED bearer
              ELSE /\ pc' = Upd(pc, t, "mv_dispatch")
                   /\ UNCHANGED <<site, ejRet, refreshResp, bearer>>
         [] OTHER ->
              IF cred.jwt # NoToken
              THEN CallEnsure(t, "logout") /\ UNCHANGED bearer
              ELSE /\ pc' = Upd(pc, t, "logout_rpc")
                   /\ bearer' = Upd(bearer, t, NoToken)
                   /\ UNCHANGED <<site, ejRet, refreshResp>>
    /\ UNCHANGED <<now, cred, lock, auth_token, issuedAt, op, dispatches, result,
                   reqRefresh, loginGen, startExpired>>
    /\ UNCHANGED <<storeVars, streamVars, sessVars>>

\* channel_ready_future(...).result(timeout=10) times out or raises: the
\* operation raises; logout catches it and returns False.
EnsureConnectionFail(t) ==
    /\ pc[t] = "conn"
    /\ lock = NoThread
    /\ ~connected
    /\ Finish(t, IF op[t] = "logout" THEN "False" ELSE "ConnectionError")
    /\ UNCHANGED <<now, cred, lock, connected, auth_token, issuedAt, op, site, bearer,
                   dispatches, refreshResp, reqRefresh, ejRet, loginGen, startExpired>>
    /\ UNCHANGED <<storeVars, streamVars, sessVars>>

\* -------------------------------------------------------- GrpcClient.login
StartLogin(t) ==
    /\ t = GameThread
    /\ pc[t] = "idle"
    /\ pc' = Upd(pc, t, "conn")
    /\ op' = Upd(op, t, "login")
    /\ UNCHANGED <<now, cred, lock, connected, auth_token, issuedAt, site, bearer,
                   dispatches, result, refreshResp, reqRefresh, ejRet, loginGen, startExpired>>
    /\ UNCHANGED <<storeVars, streamVars, sessVars>>

\* response = self.auth_stub.Login(request), response.success
LoginAccepted(t) ==
    /\ pc[t] = "login_rpc"
    /\ NextGen <= MaxGen
    /\ issuedAt' = [issuedAt EXCEPT ![NextGen] = now]
    /\ loginGen' = Upd(loginGen, t, NextGen)
    /\ pc' = Upd(pc, t, "login_store")
    /\ UNCHANGED <<now, cred, lock, connected, auth_token, op, site, bearer, dispatches,
                   result, refreshResp, reqRefresh, ejRet, startExpired>>
    /\ UNCHANGED <<storeVars, streamVars, sessVars>>

\* the response says success = false, or the RPC raises
LoginRejected(t, r) ==
    /\ pc[t] = "login_rpc"
    /\ Finish(t, r)
    /\ UNCHANGED <<now, cred, lock, connected, auth_token, issuedAt, op, site, bearer,
                   dispatches, refreshResp, reqRefresh, ejRet, loginGen, startExpired>>
    /\ UNCHANGED <<storeVars, streamVars, sessVars>>

\* the four assignments of login, outside the lock
LoginStore(t) ==
    /\ pc[t] = "login_store"
    /\ cred' = IssuedCred(loginGen[t], issuedAt[loginGen[t]])
    /\ pc' = Upd(pc, t, "login_save")
    /\ UNCHANGED <<now, lock, connected, auth_token, issuedAt, op, site, bearer, dispatches,
                   result, refreshResp, reqRefresh, ejRet, loginGen, startExpired>>
    /\ UNCHANGED <<storeVars, streamVars, sessVars>>

\* ------------------------------------------------------- GrpcClient.logout
StartLogout(t) ==
    /\ t = GameThread
    /\ pc[t] = "idle"
    /\ pc' = Upd(pc, t, "logout_check")
    /\ op' = Upd(op, t, "logout")
    /\ UNCHANGED <<now, cred, lock, connected, auth_token, issuedAt, site, bearer,
                   dispatches, result, refreshResp, reqRefresh, ejRet, loginGen, startExpired>>
    /\ UNCHANGED <<storeVars, streamVars, sessVars>>

\* if not self._jwt_token and not self._refresh_token: self._clear_tokens()
LogoutCheck(t) ==
    /\ pc[t] = "logout_check"
    /\ pc' = Upd(pc, t, IF cred.jwt = NoToken /\ cred.refresh = NoToken
                        THEN "clear" ELSE "conn")
    /\ UNCHANGED <<now, cred, lock, connected, auth_token, issuedAt, op, site, bearer,
                   dispatches, result, refreshResp, reqRefresh, ejRet, loginGen, startExpired>>
    /\ UNCHANGED <<storeVars, streamVars, sessVars>>

\* self.auth_stub.Logout(...): best effort, every outcome is ignored
LogoutRpc(t) ==
    /\ pc[t] = "logout_rpc"
    /\ pc' = Upd(pc, t, "clear")
    /\ UNCHANGED <<now, cred, lock, connected, auth_token, issuedAt, op, site, bearer,
                   dispatches, result, refreshResp, reqRefresh, ejRet, loginGen, startExpired>>
    /\ UNCHANGED <<storeVars, streamVars, sessVars>>

\* _clear_tokens(): the four assignments, outside the lock; logout returns True
ClearTokens(t) ==
    /\ pc[t] = "clear"
    /\ cred' = EmptyCred
    /\ Finish(t, "True")
    /\ UNCHANGED <<now, lock, connected, auth_token, issuedAt, op, site, bearer, dispatches,
                   refreshResp, reqRefresh, ejRet, loginGen, startExpired>>
    /\ UNCHANGED <<storeVars, streamVars, sessVars>>

\* ------------------------------------------- WorldClient._call_with_retry
\* The operation starts with an access token the service no longer accepts and
\* a renewal token that is usable and that the service accepts.
ExpiredButRenewable ==
    /\ cred.jwt # NoToken
    /\ now >= cred.jwtExp
    /\ RefreshUsable
    /\ ServerRefreshValid(cred.refresh)

\* get_world_entities / interact_with_entity: metadata = authenticated_metadata()
StartInteract(t) ==
    /\ t = GameThread
    /\ pc[t] = "idle"
    /\ op' = Upd(op, t, "interact")
    /\ startExpired' = Upd(startExpired, t, ExpiredButRenewable)
    /\ CallEnsure(t, "first")
    /\ UNCHANGED <<now, cred, lock, connected, auth_token, issuedAt, bearer, dispatches,
                   result, reqRefresh, loginGen>>
    /\ UNCHANGED <<storeVars, streamVars, sessVars>>

\* except grpc.RpcError as e: if e.code() == UNAUTHENTICATED (the handler of
\* the first dispatch only; the retry's errors are re-raised)
\* (variant: the retry's handler retries again)
ShouldRetry_Always(status, s) == status = "UNAUTHENTICATED"

\* (variant: transient failures are retried like auth rejections)
ShouldRetry_Transient(status, s) ==
    status \in ({"UNAUTHENTICATED"} \cup Transient) /\ s = "first"

ShouldRetry(status, s) == status = "UNAUTHENTICATED" /\ s = "first"

\* func(request, metadata=metadata) and the handling of its outcome
CallWithRetryDispatch(t) ==
    /\ pc[t] = "cw_dispatch"
    /\ \E status \in RpcOutcomes(bearer[t]) :
          /\ dispatches' = Upd(dispatches, t,
                               Append(dispatches[t], [tok |-> bearer[t], status |-> status]))
          /\ IF status # "OK" /\ ShouldRetry(status, site[t])
             THEN CallEnsure(t, "retry") /\ UNCHANGED result
             ELSE Finish(t, status) /\ UNCHANGED <<site, ejRet, refreshResp>>
    /\ UNCHANGED <<now, cred, lock, connected, auth_token, issuedAt, op, bearer,
                   reqRefresh, loginGen, startExpired>>
    /\ UNCHANGED <<storeVars, streamVars, sessVars>>

\* --------------------------------------------------- GrpcClient.move_player
\* GameScreen._move_player_on_server: grpc_client.move_player(self.game.auth_token, ...)
StartMove(t) ==
    /\ t = GameThread
    /\ pc[t] = "idle"
    /\ auth_token # NoToken
    /\ op' = Upd(op, t, "move")
    /\ bearer' = Upd(bearer, t, auth_token)
    /\ startExpired' = Upd(startExpired, t, ExpiredButRenewable)
    /\ pc' = Upd(pc, t, "conn")
    /\ UNCHANGED <<now, cred, lock, connected, issuedAt, auth_token, site, dispatches,
                   result, refreshResp, reqRefresh, ejRet, loginGen>>
    /\ UNCHANGED <<storeVars, streamVars, sessVars>>

\* self.player_stub.MovePlayer(request, metadata=metadata); errors are re-raised
MovePlayerDispatch(t) ==
    /\ pc[t] = "mv_dispatch"
    /\ \E status \in RpcOutcomes(bearer[t]) :
          /\ dispatches' = Upd(dispatches, t,
                               Append(dispatches[t], [tok |-> bearer[t], status |-> status]))
          /\ Finish(t, status)
    /\ UNCHANGED <<now, cred, lock, connected, auth_token, issuedAt, op, site, bearer,
                   refreshResp, reqRefresh, ejRet, loginGen, startExpired>>
    /\ UNCHANGED <<storeVars, streamVars, sessVars>>

\* --------------------------------- WorldClient.get_world_updates_stream
\* GameScreen._start_world_entity_updates_stream starts the worker
StartStream(t) ==
    /\ t = StreamThread
    /\ pc[t] = "idle"
    /\ auth_token # NoToken
    /\ op' = Upd(op, t, "stream")
    /\ pc' = Upd(pc, t, "st_top")
    /\ UNCHANGED <<now, cred, lock, connected, issuedAt, auth_token, site, bearer, dispatches,
                   result, refreshResp, reqRefresh, ejRet, loginGen, startExpired>>
    /\ consecutive_errors' = 0
    /\ sleep' = NoSleep
    /\ auth_retries' = 0
    /\ UNCHANGED <<on_reconnect, storeVars, sessVars>>

\* top of the while loop: metadata = grpc_client.authenticated_metadata()
StreamTop(t) ==
    /\ pc[t] = "st_top"
    /\ startExpired' = Upd(startExpired, t, ExpiredButRenewable)
    /\ CallEnsure(t, "st_sub")
    /\ UNCHANGED <<now, cred, lock, connected, auth_token, issuedAt, op, bearer, dispatches,
                   result, reqRefresh, loginGen>>
    /\ UNCHANGED <<storeVars, streamVars, sessVars>>

\* except grpc.RpcError as e: the three classes of the stream's error handler
\* (n is consecutive_errors when the handler is entered)
StreamError(t, status, n) ==
    /\ consecutive_errors' = CountError(n)
    /\ UNCHANGED on_reconnect
    /\ IF status = "UNAUTHENTICATED"
       THEN /\ CallEnsure(t, "st_reauth")
            /\ sleep' = NoSleep
            /\ auth_retries' = Seen(Min(auth_retries + 1, MaxAuthRetries), 0)
            /\ UNCHANGED result
       ELSE IF status \in Transient
       THEN /\ pc' = Upd(pc, t, "st_backoff")
            /\ \E pct \in JitterPercents :
                  sleep' = Seen([kind |-> "transient",
                                 raw |-> Backoff(CountError(n)),
                                 slept |-> Jittered(Backoff(CountError(n)), pct)], NoSleep)
            /\ auth_retries' = 0
            /\ UNCHANGED <<site, ejRet, refreshResp, result>>
       ELSE /\ Finish(t, status)
            /\ sleep' = NoSleep
            /\ auth_retries' = 0
            /\ UNCHANGED <<site, ejRet, refreshResp>>

\* stream = self.world_stub.GetWorldUpdates(request, metadata=metadata), then
\* consecutive_errors = 0, then the first answer of the server: the call
\* itself hands back the response iterator, a rejection is raised by the
\* iteration, after the counter was reset.
StreamOpen(t) ==
    /\ pc[t] = "st_open"
    /\ \E status \in RpcOutcomes(bearer[t]) :
          IF status = "OK"
          THEN /\ pc' = Upd(pc, t, "st_stream")
               /\ consecutive_errors' = 0
               /\ UNCHANGED <<site, ejRet, refreshResp, result, on_reconnect, sleep,
                              auth_retries>>
          ELSE StreamError(t, status, 0)
    /\ UNCHANGED <<now, cred, lock, connected, auth_token, issuedAt, op, bearer, dispatches,
                   reqRefresh, loginGen, startExpired>>
    /\ UNCHANGED <<storeVars, sessVars>>

\* for update in stream: yield update; the stream ends (sleep 0.2, reconnect) or fails
StreamNext(t) ==
    /\ pc[t] = "st_stream"
    /\ \E ev \in {"message", "end"} \cup (StatusCodes \ {"OK"}) :
          CASE ev = "message" -> /\ sleep' = NoSleep
                                 /\ auth_retries' = 0
                                 /\ UNCHANGED <<pc, site, ejRet, refreshResp, result,
                                                consecutive_errors, on_reconnect>>
            [] ev = "end" -> /\ pc' = Upd(pc, t, "st_top")
                             /\ UNCHANGED <<site, ejRet, refreshResp, result, streamVars>>
            [] OTHER -> StreamError(t, ev, consecutive_errors)
    /\ UNCHANGED <<now, cred, lock, connected, auth_token, issuedAt, op, bearer, dispatches,
                   reqRefresh, loginGen, startExpired>>
    /\ UNCHANGED <<storeVars, sessVars>>

\* time.sleep(backoff); continue
StreamBackoff(t) ==
    /\ pc[t] = "st_backoff"
    /\ pc' = Upd(pc, t, "st_top")
    /\ UNCHANGED <<now, cred, lock, connected, auth_token, issuedAt, op, site, bearer,
                   dispatches, result, refreshResp, reqRefresh, ejRet, loginGen, startExpired>>
    /\ UNCHANGED <<storeVars, streamVars, sessVars>>

\* ------------------------------------------------------------------ glue
\* The caller has taken the operation's result; the thread is free again.
Return(t) ==
    /\ pc[t] = "done"
    /\ pc' = Upd(pc, t, "idle")
    /\ op' = Upd(op, t, "none")
    /\ site' = Upd(site, t, "none")
    /\ bearer' = Upd(bearer, t, NoToken)
    /\ dispatches' = Upd(dispatches, t, <<>>)
    /\ result' = Upd(result, t, "none")
    /\ refreshResp' = Upd(refreshResp, t, "none")
    /\ reqRefresh' = Upd(reqRefresh, t, NoToken)
    /\ ejRet' = Upd(ejRet, t, 0)
    /\ loginGen' = Upd(loginGen, t, NoToken)
    /\ startExpired' = Upd(startExpired, t, FALSE)
    /\ UNCHANGED <<now, cred, lock, connected, auth_token, issuedAt>>
    /\ IF op[t] = "stream"
       THEN /\ consecutive_errors' = 0 /\ sleep' = NoSleep /\ auth_retries' = 0
            /\ UNCHANGED on_reconnect
       ELSE UNCHANGED streamVars
    /\ UNCHANGED <<storeVars, sessVars>>

Tick ==
    /\ now < MaxTime
    /\ now' = now + TimeStep
    /\ UNCHANGED <<cred, lock, connected, auth_token, issuedAt, pc, op, site, bearer,
                   dispatches, result, refreshResp, reqRefresh, ejRet, loginGen, startExpired>>
    /\ UNCHANGED <<storeVars, streamVars, sessVars>>


\* ============================================================ EntityStore
LocalId == "local-uuid"          \* str(uuid.uuid4()), made by _initialize_world
PlayerIds == {"1", "2"}          \* player ids the server knows
PlayerEntityId(p) == "player_" \o p
RemotePlayerIds == {PlayerEntityId(p) : p \in PlayerIds}
MonsterId == "monster_7"
EntityIds == {LocalId, MonsterId} \cup RemotePlayerIds

\* entity_id.startswith("player_"): a uuid never does
StartsWithPlayer(id) == id \in RemotePlayerIds

\* Positions are (x, y) pairs; the spawn point is the origin of the model's grid.
Spawn == <<0, 0>>

NoEntity == [type |-> "none", name |-> "", pos |-> Spawn, facing |-> 0,
             mstate |-> "IDLE", hp |-> 0, level |-> 0]

\* Entity.__init__: target at the position, IDLE, facing 0, Stats(100, ..., level 1, ...)
NewEntity(type, pos, name) ==
    [type |-> type, name |-> name, pos |-> pos, facing |-> 0,
     mstate |-> "IDLE", hp |-> 100, level |-> 1]

\* MovementState(value): the member with that value, ValueError for any other string
MovementStateOf(v) ==
    CASE v = "idle" -> [ok |-> TRUE, val |-> "IDLE"]
      [] v = "walking" -> [ok |-> TRUE, val |-> "WALKING"]
      [] v = "running" -> [ok |-> TRUE, val |-> "RUNNING"]
      [] v = "attacking" -> [ok |-> TRUE, val |-> "ATTACKING"]
      [] v = "dead" -> [ok |-> TRUE, val |-> "DEAD"]
      [] OTHER -> [ok |-> FALSE, val |-> v]

\* MovementState(d.movement_state) if d.movement_state else MovementState.IDLE
MovementStateOrIdle(v) ==
    IF v = "" THEN [ok |-> TRUE, val |-> "IDLE"] ELSE MovementStateOf(v)

\* ---- what the server sends
PlayerProfiles ==
    {[pos |-> <<1, 0>>, facing |-> 2, mstate |-> "walking", hp |-> 5, level |-> 2],
     [pos |-> <<0, 2>>, facing |-> 3, mstate |-> "idle", hp |-> 9, level |-> 1]}

EntityProfiles ==
    {[pos |-> <<1, 0>>, facing |-> 2, mstate |-> "walking", hp |-> 5, level |-> 2],
     [pos |-> <<0, 2>>, facing |-> 1, mstate |-> "walk", hp |-> 0, level |-> 1]}

Names == {"Hero", "Bob"}

PlayerIdentities == {<<"1", "Bob">>, <<"2", "Hero">>}
EntityIdentities ==
    {<<LocalId, "npc">>, <<PlayerEntityId("1"), "player">>, <<MonsterId, "monster">>}

\* the display name the server gives an entity: a player's is the roster's
EntityName(id) ==
    IF \E who \in PlayerIdentities : PlayerEntityId(who[1]) = id
    THEN (CHOOSE who \in PlayerIdentities : PlayerEntityId(who[1]) = id)[2]
    ELSE "Goblin"

PlayerInfo(who, o, p) ==
    [id |-> who[1], name |-> who[2], is_online |-> o, pos |-> p.pos, facing |-> p.facing,
     mstate |-> p.mstate, hp |-> p.hp, level |-> p.level]

\* online players in every profile, offline ones in the profile they left in
LastProfile == CHOOSE p \in PlayerProfiles : p.mstate = "idle"
PlayerInfos ==
    {PlayerInfo(who, TRUE, p) : who \in PlayerIdentities, p \in PlayerProfiles}
        \cup {PlayerInfo(who, FALSE, LastProfile) : who \in PlayerIdentities}

EntityDatas ==
    {[id |-> what[1], entity_type |-> what[2], name |-> EntityName(what[1]), pos |-> p.pos,
      facing |-> p.facing, mstate |-> p.mstate, hp |-> p.hp, is_alive |-> p.hp > 0] :
        what \in EntityIdentities, p \in EntityProfiles}

SeqsUpTo(S, n) == UNION {[1..k -> S] : k \in 0..n}

Rosters == SeqsUpTo(PlayerInfos, MaxRoster)

StreamUpdates ==
    {[updated_entities |-> u, removed_entity_ids |-> r] :
        u \in SeqsUpTo(EntityDatas, MaxDiff),
        r \in SeqsUpTo({w[1] : w \in EntityIdentities}, MaxDiff)}

\* ---- EntityManager, on a world value w = [store, lp, alias, raised]:
\* store is the dict, lp the local_player object, alias says that the dict's
\* entry under the local id is that very object, raised that an exception
\* is propagating.
World(st, lp, alias) == [store |-> st, lp |-> lp, alias |-> alias, raised |-> FALSE]

\* get_entity(id)
GetEntity(w, id) == w.store[id]
HasEntity(w, id) == w.store[id] # NoEntity

\* a field write through the reference get_entity(id) returned
PutEntity(w, id, e) ==
    [w EXCEPT !.store = [w.store EXCEPT ![id] = e],
              !.lp = IF id = LocalId /\ w.alias THEN e ELSE w.lp]

\* an add_entity that stores nothing
AddEntity_Dropped(w, id, e) == w

\* add_entity(entity): self.entities[entity.id] = entity, a new object
AddEntity(w, id, e) ==
    [w EXCEPT !.store = [w.store EXCEPT ![id] = e],
              !.alias = IF id = LocalId THEN FALSE ELSE w.alias]

\* remove_entity(id): if id in self.entities: del self.entities[id]
RemoveEntity(w, id) ==
    [w EXCEPT !.store = [w.store EXCEPT ![id] = NoEntity],
              !.alias = IF id = LocalId THEN FALSE ELSE w.alias]

\* field writes through self.local_player: they reach the dict's entry under
\* the local id only while that entry is this very object
WriteLocalPlayer(w, lp) ==
    [w EXCEPT !.lp = lp,
              !.store = IF w.alias THEN [w.store EXCEPT ![LocalId] = lp] ELSE w.store]

\* ---- GameScreen._add_other_players
AddOtherPlayer(w, info) ==
    LET eid == PlayerEntityId(info.id) IN
    IF info.is_online /\ info.name # w.lp.name
    THEN IF HasEntity(w, eid)
         THEN PutEntity(w, eid, [GetEntity(w, eid) EXCEPT
                                    !.pos = info.pos, !.name = info.name,
                                    !.level = info.level, !.hp = info.hp,
                                    !.facing = info.facing, !.mstate = info.mstate])
         ELSE AddEntity(w, eid, [NewEntity("player", info.pos, info.name) EXCEPT
                                    !.level = info.level, !.hp = info.hp,
                                    !.facing = info.facing, !.mstate = info.mstate])
    ELSE w

RECURSIVE AddOtherPlayers(_, _)
AddOtherPlayers(w, players) ==
    IF players = <<>> THEN w
    ELSE AddOtherPlayers(AddOtherPlayer(w, Head(players)), Tail(players))

\* ---- GameScreen._apply_player_updates
\* the body of `for player_info in players`; current is current_remote_players,
\* acc = [w, still_online]
ApplyPlayerInfo(acc, current, info) ==
    LET w == acc.w
        eid == PlayerEntityId(info.id) IN
    IF info.name = w.lp.name THEN acc
    ELSE IF info.is_online
    THEN [w |-> IF HasEntity(w, eid)
                THEN PutEntity(w, eid, [GetEntity(w, eid) EXCEPT
                                           !.pos = info.pos, !.facing = info.facing,
                                           !.mstate = info.mstate, !.hp = info.hp,
                                           !.level = info.level])
                ELSE AddOtherPlayers(w, <<info>>),
          still_online |-> acc.still_online \cup {eid}]
    ELSE [w |-> IF eid \in current THEN RemoveEntity(w, eid) ELSE w,
          still_online |-> acc.still_online]

RECURSIVE ApplyPlayerInfos(_, _, _)
ApplyPlayerInfos(acc, current, players) ==
    IF players = <<>> THEN acc
    ELSE ApplyPlayerInfos(ApplyPlayerInfo(acc, current, Head(players)), current, Tail(players))

\* a closing loop that removes every former remote player, online or not
RemoveDisconnected_AllFormer(w, current, still_online) ==
    [w EXCEPT !.store = [id \in EntityIds |->
                            IF id \in current THEN NoEntity ELSE w.store[id]]]

\* the closing loop: remove every former remote player that is not still online
RemoveDisconnected(w, current, still_online) ==
    [w EXCEPT !.store = [id \in EntityIds |->
                            IF id \in current /\ id \notin still_online
                            THEN NoEntity ELSE w.store[id]]]

ApplyPlayerUpdates(w, players) ==
    LET current == {id \in EntityIds : HasEntity(w, id) /\ StartsWithPlayer(id) /\ id # LocalId}
        acc == ApplyPlayerInfos([w |-> w, still_online |-> {}], current, players)
    IN  RemoveDisconnected(acc.w, current, acc.still_online)

\* ---- GameScreen._create_entity_from_server_data
EntityTypeOf(entity_type) ==
    IF entity_type \in {"npc", "monster", "item"} THEN entity_type ELSE "npc"

\* [ok, entity]: ok is FALSE when MovementState(...) raises
CreateEntityFromServerData(d) ==
    LET type == EntityTypeOf(d.entity_type)
        e == NewEntity(type, d.pos, d.name)
        ms == MovementStateOrIdle(d.mstate) IN
    IF type = "monster"
    THEN [ok |-> ms.ok,
          entity |-> [e EXCEPT !.hp = d.hp, !.facing = d.facing,
                               !.mstate = IF ms.ok THEN ms.val ELSE e.mstate]]
    ELSE [ok |-> TRUE, entity |-> e]

\* ---- GameScreen._update_entity_from_server_data
UpdateEntityFromServerData(w, d) ==
    IF ~HasEntity(w, d.id) THEN w
    ELSE LET e == GetEntity(w, d.id)
             moved == [e EXCEPT !.pos = d.pos]
             ms == MovementStateOrIdle(d.mstate) IN
         IF e.type = "monster"
         THEN [PutEntity(w, d.id, [moved EXCEPT !.hp = d.hp, !.facing = d.facing,
                                                !.mstate = IF ms.ok THEN ms.val ELSE e.mstate])
                 EXCEPT !.raised = ~ms.ok]
         ELSE PutEntity(w, d.id, moved)

\* ---- GameScreen._process_world_entity_updates
\* `for entity_data in update.updated_entities`, stopping at an exception
RECURSIVE ApplyUpdatedEntities(_, _)
ApplyUpdatedEntities(w, datas) ==
    IF datas = <<>> \/ w.raised THEN w
    ELSE LET d == Head(datas)
             made == CreateEntityFromServerData(d)
             w2 == IF HasEntity(w, d.id) THEN UpdateEntityFromServerData(w, d)
                   ELSE IF made.ok THEN AddEntity(w, d.id, made.entity)
                   ELSE [w EXCEPT !.raised = TRUE]
         IN  ApplyUpdatedEntities(w2, Tail(datas))

\* `for removed_id in update.removed_entity_ids`
RECURSIVE ApplyRemovedIds(_, _)
ApplyRemovedIds(w, ids) ==
    IF ids = <<>> \/ w.raised THEN w
    ELSE ApplyRemovedIds(RemoveEntity(w, Head(ids)), Tail(ids))

ApplyStreamUpdate(w, update) ==
    ApplyRemovedIds(ApplyUpdatedEntities(w, update.updated_entities),
                    update.removed_entity_ids)

\* the while loop over the queue: [w, queue] once the queue is empty or an
\* exception has ended the call (the update being applied is already taken)
RECURSIVE DrainEntityUpdates(_, _)
DrainEntityUpdates(w, q) ==
    IF q = <<>> \/ w.raised THEN [w |-> w, queue |-> q]
    ELSE DrainEntityUpdates(ApplyStreamUpdate(w, Head(q)), Tail(q))

\* ---- GameScreen._process_world_updates_queue
RECURSIVE DrainPlayerUpdates(_, _)
DrainPlayerUpdates(w, q) ==
    IF q = <<>> THEN w
    ELSE DrainPlayerUpdates(ApplyPlayerUpdates(w, Head(q)), Tail(q))

CurrentWorld == World(store, local_player, localInStore)

SetWorld(w) ==
    /\ store' = w.store
    /\ local_player' = w.lp
    /\ localInStore' = w.alias

\* ---- actions of the game loop and of the two workers
\* GameScreen.update, first part: self._process_world_updates_queue()
ProcessWorldUpdatesQueue ==
    /\ gphase = "players"
    /\ SetWorld(DrainPlayerUpdates(CurrentWorld, world_updates_queue))
    /\ world_updates_queue' = <<>>
    /\ gphase' = "entities"
    /\ UNCHANGED <<world_joined, world_updates_running, world_entity_updates_running,
                   world_entity_updates_queue>>
    /\ UNCHANGED <<sent, authVars, streamVars>>
    /\ updates_origin' = <<>>
    /\ UNCHANGED <<session, workerVars, entity_updates_origin, moveVars>>

\* GameScreen.update, second part: self._process_world_entity_updates()
ProcessWorldEntityUpdates ==
    /\ gphase = "entities"
    /\ LET r == DrainEntityUpdates(CurrentWorld, world_entity_updates_queue) IN
          /\ SetWorld(r.w)
          /\ world_entity_updates_queue' = r.queue
    /\ gphase' = "events"
    /\ UNCHANGED <<world_joined, world_updates_running, world_entity_updates_running,
                   world_updates_queue>>
    /\ UNCHANGED <<sent, authVars, streamVars>>
    /\ entity_updates_origin' = SubSeq(entity_updates_origin,
                                        Len(entity_updates_origin) - Len(world_entity_updates_queue') + 1,
                                        Len(entity_updates_origin))
    /\ UNCHANGED <<session, workerVars, updates_origin, moveVars>>

\* The game-loop thread is not inside a call to the server: handle_events and
\* update run on the one thread of Game.run, and the stubs' calls are blocking.
GameThreadFree == move_response # "pending"

\* Game.run: the next frame begins with GameScreen.update
BeginUpdate ==
    /\ gphase = "events"
    /\ GameThreadFree
    /\ gphase' = "players"
    /\ UNCHANGED <<store, local_player, localInStore, world_joined, world_updates_running,
                   world_entity_updates_running, world_updates_queue,
                   world_entity_updates_queue>>
    /\ UNCHANGED <<sent, authVars, streamVars>>
    /\ UNCHANGED sessVars

\* GameScreen._join_world_on_server with a successful response: the local
\* player takes the server's snapshot, the other players are added, both
\* workers are started.
JoinWorld(name, p, others) ==
    /\ gphase = "events"
    /\ GameThreadFree
    /\ ~world_joined
    /\ LET lp == [local_player EXCEPT !.pos = p.pos, !.name = name, !.level = p.level,
                                      !.hp = p.hp, !.facing = p.facing, !.mstate = p.mstate]
           joined == WriteLocalPlayer(CurrentWorld, lp)
       IN  SetWorld(AddOtherPlayers(joined, others))
    /\ world_joined' = TRUE
    /\ world_updates_running' = TRUE
    /\ world_entity_updates_running' = TRUE
    /\ UNCHANGED <<world_updates_queue, world_entity_updates_queue, gphase>>
    /\ UNCHANGED <<sent, authVars, streamVars>>
    /\ session < MaxSessions
    /\ session' = session + 1
    /\ poll_pc' = [poll_pc EXCEPT ![session + 1] = "top"]
    /\ sw_pc' = [sw_pc EXCEPT ![session + 1] = "connecting"]
    /\ UNCHANGED <<poll_resp, sw_held, originVars, moveVars>>

\* the facing of _process_movement: 2 right, 4 left, 3 down, 1 up
Abs(n) == IF n < 0 THEN -n ELSE n
FacingOf(dx, dy) ==
    IF Abs(dx) > Abs(dy) THEN (IF dx > 0 THEN 2 ELSE 4) ELSE (IF dy > 0 THEN 3 ELSE 1)

\* GameScreen._move_player_on_server: how the request ends. Without a token
\* nothing is sent; the server accepts only a token it knows as valid, and it
\* may reject the move (success = false) or the call may raise in any case.
MoveOutcomes ==
    IF auth_token = NoToken THEN {"no_token"}
    ELSE {"rejected", "raised"} \cup (IF ServerAccessValid(auth_token) THEN {"ok"} ELSE {})

MoveFailures == {"rejected", "raised", "no_token"}

\* (variant: a failed move puts the local player back where it was)
AfterMoveResponse_Rollback(moved, before, outcome) ==
    IF outcome \in MoveFailures THEN before ELSE moved

\* the local player once _move_player_on_server has returned: success is
\* followed by _sync_player_position_to_server, failure by a chat message,
\* neither writes a field of the entity
AfterMoveResponse(moved, before, outcome) == moved

\* GameScreen._process_movement: the optimistic local move, then the request
\* to the server and its answer
ProcessMovement(target, movement_type) ==
    /\ gphase = "events"
    /\ GameThreadFree
    /\ world_joined
    /\ \E outcome \in MoveOutcomes :
          /\ LET moved == [local_player EXCEPT
                              !.pos = target,
                              !.facing = FacingOf(target[1] - local_player.pos[1],
                                                  target[2] - local_player.pos[2]),
                              !.mstate = movement_type]
                 lp == AfterMoveResponse(moved, local_player, outcome)
             IN  SetWorld(WriteLocalPlayer(CurrentWorld, lp))
          /\ move_response' = outcome
    /\ UNCHANGED <<world_joined, world_updates_running, world_entity_updates_running,
                   world_updates_queue, world_entity_updates_queue, gphase>>
    /\ UNCHANGED <<sent, authVars, streamVars>>
    /\ UNCHANGED <<session, workerVars, originVars, needs_sync, last_sync, last_auto_sync,
                   last_push>>

\* _world_updates_worker: a world state with players is queued
\* (_update_remote_players)
PollEnqueue(players) ==
    /\ world_updates_running
    /\ players # <<>>
    /\ sent < MaxSent
    /\ Len(world_updates_queue) < MaxQueue
    /\ sent' = sent + 1
    /\ world_updates_queue' = Append(world_updates_queue, players)
    /\ UNCHANGED <<store, local_player, localInStore, world_joined, world_updates_running,
                   world_entity_updates_running, world_entity_updates_queue, gphase>>
    /\ UNCHANGED <<authVars, streamVars>>
    /\ updates_origin' = Append(updates_origin, session)
    /\ UNCHANGED <<session, workerVars, entity_updates_origin, moveVars>>

\* ---- GameScreen._clear_all_remote_players: every entity of type PLAYER whose
\* id starts with "player_" and is not the local player's
ClearAllRemotePlayers(w) ==
    [w EXCEPT !.store = [id \in EntityIds |->
                            IF /\ w.store[id].type = "player"
                               /\ id # LocalId
                               /\ StartsWithPlayer(id)
                            THEN NoEntity ELSE w.store[id]]]

\* _world_updates_worker: a world state without players makes the worker
\* clear the remote players itself
PollEmpty ==
    /\ world_updates_running
    /\ sent < MaxSent
    /\ sent' = sent + 1
    /\ SetWorld(ClearAllRemotePlayers(CurrentWorld))
    /\ UNCHANGED <<world_joined, world_updates_running, world_entity_updates_running,
                   world_updates_queue, world_entity_updates_queue, gphase>>
    /\ UNCHANGED <<authVars, streamVars>>
    /\ UNCHANGED sessVars

\* _world_entity_updates_worker: an update of the stream is queued
StreamEnqueue(update) ==
    /\ world_entity_updates_running
    /\ sent < MaxSent
    /\ Len(world_entity_updates_queue) < MaxQueue
    /\ sent' = sent + 1
    /\ world_entity_updates_queue' = Append(world_entity_updates_queue, update)
    /\ UNCHANGED <<store, local_player, localInStore, world_joined, world_updates_running,
                   world_entity_updates_running, world_updates_queue, gphase>>
    /\ UNCHANGED <<authVars, streamVars>>
    /\ entity_updates_origin' = Append(entity_updates_origin, session)
    /\ UNCHANGED <<session, workerVars, updates_origin, moveVars>>

\* ---- the worker threads, one step at a time
\* GameScreen.__init__: self.last_auto_sync = 0, the epoch of time.time(), long
\* before any instant of the run
NeverSynced == -1
\* GameScreen.__init__: self.auto_sync_interval = 5.0 (seconds)
AutoSyncInterval == 5
NoPush == [dirty |-> FALSE, success |-> FALSE, at |-> -1]
NoResponse == [kind |-> "none", players |-> <<>>, fetched_in |-> 0]
Sessions == 1..MaxSessions

\* what the server answers a world-state request of the session's player
OneRoster == <<PlayerInfo(<<"1", "Bob">>, TRUE, LastProfile)>>
OneUpdate == [updated_entities |-> <<>>, removed_entity_ids |-> <<MonsterId>>]

\* GrpcClient.get_world_state(auth_token): the response, or None after any
\* error; the server answers only a token it accepts
WorldStateResponses ==
    {[kind |-> "failed", players |-> <<>>, fetched_in |-> session]}
        \cup (IF ServerAccessValid(auth_token)
              THEN {[kind |-> "state", players |-> r, fetched_in |-> session] :
                       r \in {<<>>, OneRoster}}
              ELSE {})

\* _world_updates_worker: while self.world_updates_running
PollLoopTest(s) ==
    /\ poll_pc[s] = "top"
    /\ poll_pc' = [poll_pc EXCEPT ![s] = IF world_updates_running THEN "check" ELSE "exited"]
    /\ UNCHANGED <<authVars, storeVars, streamVars>>
    /\ UNCHANGED <<session, poll_resp, sw_pc, sw_held, originVars, moveVars>>

\* (variant: the test inside the loop body is missing)
PollCheck_NoTest(s) ==
    /\ poll_pc[s] = "check"
    /\ poll_pc' = [poll_pc EXCEPT ![s] = "call"]
    /\ UNCHANGED <<authVars, storeVars, streamVars>>
    /\ UNCHANGED <<session, poll_resp, sw_pc, sw_held, originVars, moveVars>>

\* if not self.world_updates_running: break
PollCheck(s) ==
    /\ poll_pc[s] = "check"
    /\ poll_pc' = [poll_pc EXCEPT ![s] = IF world_updates_running THEN "call" ELSE "exited"]
    /\ UNCHANGED <<authVars, storeVars, streamVars>>
    /\ UNCHANGED <<session, poll_resp, sw_pc, sw_held, originVars, moveVars>>

\* world_state = grpc_client.get_world_state(self.game.auth_token)
PollCall(s) ==
    /\ poll_pc[s] = "call"
    /\ \E resp \in WorldStateResponses : poll_resp' = [poll_resp EXCEPT ![s] = resp]
    /\ poll_pc' = [poll_pc EXCEPT ![s] = "deliver"]
    /\ UNCHANGED <<authVars, storeVars, streamVars>>
    /\ UNCHANGED <<session, sw_pc, sw_held, originVars, moveVars>>

\* if world_state and world_state.players: self._update_remote_players(...)
\* else: self._clear_all_remote_players()
PollDeliver(s) ==
    /\ poll_pc[s] = "deliver"
    /\ IF poll_resp[s].kind = "state" /\ poll_resp[s].players # <<>>
       THEN /\ Len(world_updates_queue) < MaxQueue
            /\ world_updates_queue' = Append(world_updates_queue, poll_resp[s].players)
            /\ updates_origin' = Append(updates_origin, poll_resp[s].fetched_in)
            /\ UNCHANGED <<store, local_player, localInStore>>
       ELSE /\ SetWorld(ClearAllRemotePlayers(CurrentWorld))
            /\ UNCHANGED <<world_updates_queue, updates_origin>>
    /\ poll_pc' = [poll_pc EXCEPT ![s] = "sleep"]
    /\ poll_resp' = [poll_resp EXCEPT ![s] = NoResponse]
    /\ UNCHANGED <<world_joined, world_updates_running, world_entity_updates_running,
                   world_entity_updates_queue, gphase, sent>>
    /\ UNCHANGED <<authVars, streamVars>>
    /\ UNCHANGED <<session, sw_pc, sw_held, entity_updates_origin, moveVars>>

\* time.sleep(0.1)
PollSleep(s) ==
    /\ poll_pc[s] = "sleep"
    /\ poll_pc' = [poll_pc EXCEPT ![s] = "top"]
    /\ UNCHANGED <<authVars, storeVars, streamVars>>
    /\ UNCHANGED <<session, poll_resp, sw_pc, sw_held, originVars, moveVars>>

PollStep(s) ==
    \/ PollLoopTest(s)
    \/ PollCheck(s)
    \/ PollCall(s)
    \/ PollDeliver(s)
    \/ PollSleep(s)

\* _world_entity_updates_worker, blocked in `for update in stream`: inside
\* get_world_updates_stream a subscription is opened, or fails for good and
\* the generator ends (a subscription that fails and is tried again after
\* the backoff leaves the worker where it is)
StreamWorkerConnect(s) ==
    /\ sw_pc[s] = "connecting"
    /\ \E to \in {"waiting", "exited"} : sw_pc' = [sw_pc EXCEPT ![s] = to]
    /\ UNCHANGED <<authVars, storeVars, streamVars>>
    /\ UNCHANGED <<session, poll_pc, poll_resp, sw_held, originVars, moveVars>>

\* the open stream ends or fails (the generator reconnects or ends), or it
\* yields a message to the worker
StreamWorkerReceive(s) ==
    /\ sw_pc[s] = "waiting"
    /\ \E ev \in {"message", "reconnect", "fatal"} :
          /\ sw_pc' = [sw_pc EXCEPT ![s] = CASE ev = "message" -> "got"
                                              [] ev = "reconnect" -> "connecting"
                                              [] OTHER -> "exited"]
          /\ sw_held' = [sw_held EXCEPT ![s] = IF ev = "message" THEN session ELSE 0]
    /\ UNCHANGED <<authVars, storeVars, streamVars>>
    /\ UNCHANGED <<session, poll_pc, poll_resp, originVars, moveVars>>

\* if not self.world_entity_updates_running: break
\* self.world_entity_updates_queue.put(update)
StreamWorkerHandle(s) ==
    /\ sw_pc[s] = "got"
    /\ IF world_entity_updates_running
       THEN /\ Len(world_entity_updates_queue) < MaxQueue
            /\ world_entity_updates_queue' = Append(world_entity_updates_queue, OneUpdate)
            /\ entity_updates_origin' = Append(entity_updates_origin, sw_held[s])
            /\ sw_pc' = [sw_pc EXCEPT ![s] = "waiting"]
       ELSE /\ sw_pc' = [sw_pc EXCEPT ![s] = "exited"]
            /\ UNCHANGED <<world_entity_updates_queue, entity_updates_origin>>
    /\ sw_held' = [sw_held EXCEPT ![s] = 0]
    /\ UNCHANGED <<store, local_player, localInStore, world_joined, world_updates_running,
                   world_entity_updates_running, world_updates_queue, gphase, sent>>
    /\ UNCHANGED <<authVars, streamVars>>
    /\ UNCHANGED <<session, poll_pc, poll_resp, updates_origin, moveVars>>

StreamWorkerLoop(s) ==
    \/ StreamWorkerConnect(s)
    \/ StreamWorkerReceive(s)
    \/ StreamWorkerHandle(s)

\* GameScreen.handle_events, K_ESCAPE: the polling flag is cleared, the world
\* is left, then _cleanup_world_state: world_joined and both flags cleared,
\* both queues emptied, the remote players removed (_cleanup_remote_players)
LeaveWorld ==
    /\ gphase = "events"
    /\ GameThreadFree
    /\ world_joined
    /\ world_joined' = FALSE
    /\ world_updates_running' = FALSE
    /\ world_entity_updates_running' = FALSE
    /\ world_updates_queue' = <<>>
    /\ world_entity_updates_queue' = <<>>
    /\ updates_origin' = <<>>
    /\ entity_updates_origin' = <<>>
    /\ SetWorld(ClearAllRemotePlayers(CurrentWorld))
    /\ UNCHANGED <<gphase, sent>>
    /\ UNCHANGED <<authVars, streamVars>>
    /\ UNCHANGED <<session, workerVars, moveVars>>

MoveTargets == {<<1, 0>>, <<0, 1>>}

StoreNext ==
    \/ BeginUpdate
    \/ ProcessWorldUpdatesQueue
    \/ ProcessWorldEntityUpdates
    \/ \E name \in Names, others \in Rosters : JoinWorld(name, LastProfile, others)
    \/ \E target \in MoveTargets, mt \in {"walk", "run"} : ProcessMovement(target, mt)
    \/ \E players \in Rosters : PollEnqueue(players)
    \/ PollEmpty
    \/ \E update \in StreamUpdates : StreamEnqueue(update)

\* GameScreen.__init__ and _initialize_world: the local player alone, at the
\* spawn point, named after the selected character.
StoreInit ==
    /\ local_player = NewEntity("player", Spawn, "Hero")
    /\ store = [id \in EntityIds |->
                  IF id = LocalId THEN NewEntity("player", Spawn, "Hero") ELSE NoEntity]
    /\ localInStore = TRUE
    /\ world_joined = FALSE
    /\ world_updates_running = FALSE
    /\ world_entity_updates_running = FALSE
    /\ world_updates_queue = <<>>
    /\ world_entity_updates_queue = <<>>
    /\ gphase = "events"
    /\ sent = 0

\* GameScreen.__init__: no join yet, no worker thread; Entity.__init__ of the
\* local player: needs_sync False, last_sync the time of creation
SessInit ==
    /\ session = 0
    /\ poll_pc = [s \in Sessions |-> "off"]
    /\ poll_resp = [s \in Sessions |-> NoResponse]
    /\ sw_pc = [s \in Sessions |-> "off"]
    /\ sw_held = [s \in Sessions |-> 0]
    /\ updates_origin = <<>>
    /\ entity_updates_origin = <<>>
    /\ needs_sync = FALSE
    /\ last_sync = 0
    /\ move_response = "none"
    /\ last_auto_sync = NeverSynced
    /\ last_push = NoPush

\* GrpcClient.__init__: the fields are empty, then _load_tokens() restores the
\* token file of an earlier run if there is one (here: pair 1, issued at 0).
\* No thread has started an operation; the stream generator does not exist yet.
ThreadsIdle ==
    /\ pc = [t \in Threads |-> "idle"]
    /\ op = [t \in Threads |-> "none"]
    /\ site = [t \in Threads |-> "none"]
    /\ bearer = [t \in Threads |-> NoToken]
    /\ dispatches = [t \in Threads |-> <<>>]
    /\ result = [t \in Threads |-> "none"]
    /\ refreshResp = [t \in Threads |-> "none"]
    /\ reqRefresh = [t \in Threads |-> NoToken]
    /\ ejRet = [t \in Threads |-> 0]
    /\ loginGen = [t \in Threads |-> NoToken]
    /\ startExpired = [t \in Threads |-> FALSE]
    /\ consecutive_errors = 0
    /\ sleep = NoSleep
    /\ auth_retries = 0

Init ==
    /\ now = 0
    /\ \/ cred = EmptyCred /\ issuedAt = [g \in 1..MaxGen |-> -1]
       \/ cred = IssuedCred(1, 0) /\ issuedAt = [g \in 1..MaxGen |-> IF g = 1 THEN 0 ELSE -1]
    /\ lock = NoThread
    /\ connected = FALSE
    /\ auth_token = NoToken
    /\ ThreadsIdle
    /\ on_reconnect = FALSE
    /\ StoreInit
    /\ SessInit

ThreadStep(t) ==
    \/ EnsureAcquire(t)
    \/ EnsureValid(t)
    \/ EnsureRefreshCall(t)
    \/ EnsureNoRefresh(t)
    \/ EnsureRefreshOk(t)
    \/ \E kind \in {"fail", "error"} : EnsureRefreshFailed(t, kind)
    \/ SaveTokens(t)
    \/ EnsureConnectionOk(t)
    \/ EnsureConnectionFail(t)
    \/ StartLogin(t)
    \/ LoginAccepted(t)
    \/ \E r \in {"LoginRejected", "RpcError"} : LoginRejected(t, r)
    \/ LoginStore(t)
    \/ StartLogout(t)
    \/ LogoutCheck(t)
    \/ LogoutRpc(t)
    \/ ClearTokens(t)
    \/ StartInteract(t)
    \/ CallWithRetryDispatch(t)
    \/ StartMove(t)
    \/ MovePlayerDispatch(t)
    \/ StartStream(t)
    \/ StreamTop(t)
    \/ StreamOpen(t)
    \/ StreamNext(t)
    \/ StreamBackoff(t)
    \/ Return(t)

Next ==
    \/ Tick
    \/ \E t \in Threads : ThreadStep(t)

Spec == Init /\ [][Next]_vars

\* Every thread that can take a step eventually takes one (the interpreter
\* schedules every runnable thread).
FairSpec == Spec /\ \A t \in Threads : WF_vars(ThreadStep(t))

\* In addition a thread that waits for the credential lock gets it if the lock
\* is free again and again (no waiter is passed over for ever).
LockFairSpec == FairSpec /\ \A t \in Threads : SF_vars(EnsureAcquire(t))

\* The steps of the streaming worker: get_world_updates_stream and the
\* authenticated_metadata() calls it makes.
StreamWorkerStep ==
    \/ EnsureAcquire(StreamThread)
    \/ EnsureValid(StreamThread)
    \/ EnsureRefreshCall(StreamThread)
    \/ EnsureNoRefresh(StreamThread)
    \/ EnsureRefreshOk(StreamThread)
    \/ \E kind \in {"fail", "error"} : EnsureRefreshFailed(StreamThread, kind)
    \/ StartStream(StreamThread)
    \/ StreamTop(StreamThread)
    \/ StreamOpen(StreamThread)
    \/ StreamNext(StreamThread)
    \/ StreamBackoff(StreamThread)
    \/ Return(StreamThread)

\* The player has just logged in (GrpcClient.login at time 0, Game.auth_token
\* set by switch_state); the stream is consumed with an on_reconnect callback.
StreamStart ==
    /\ now = 0
    /\ cred = IssuedCred(1, 0)
    /\ issuedAt = [g \in 1..MaxGen |-> IF g = 1 THEN 0 ELSE -1]
    /\ lock = NoThread
    /\ connected = TRUE
    /\ auth_token = 1
    /\ ThreadsIdle
    /\ on_reconnect = TRUE
    /\ StoreInit
    /\ SessInit

StreamLoopNext ==
    \/ Tick
    \/ StreamWorkerStep

\* The streaming loop alone, watched through on_reconnect.
StreamSpec == StreamStart /\ [][StreamLoopNext]_vars

\* The player has logged in at time 0 and enters the game screen.
SessionStart ==
    /\ now = 0
    /\ cred = IssuedCred(1, 0)
    /\ issuedAt = [g \in 1..MaxGen |-> IF g = 1 THEN 0 ELSE -1]
    /\ lock = NoThread
    /\ connected = TRUE
    /\ auth_token = 1
    /\ ThreadsIdle
    /\ on_reconnect = FALSE
    /\ StoreInit
    /\ SessInit

\* the game loop: frames, joins and leaves
GameLoopStep ==
    \/ BeginUpdate
    \/ ProcessWorldUpdatesQueue
    \/ ProcessWorldEntityUpdates
    \/ \E others \in {<<>>, OneRoster} : JoinWorld("Hero", LastProfile, others)
    \/ LeaveWorld

\* ------------------------------------------- the frame of a quiet session
\* Entity.update: current_time - self.last_sync > 0.1. The clock counts whole
\* seconds: the test is true once the clock has moved, and may go either way
\* within the second of last_sync.
SyncTimerOutcomes == IF now > last_sync THEN {TRUE} ELSE {TRUE, FALSE}

\* GameScreen.update: current_time - self.last_auto_sync > self.auto_sync_interval
AutoSyncDue == last_auto_sync = NeverSynced \/ now - last_auto_sync > AutoSyncInterval

\* _sync_all_player_data_to_server: True when both the stats and the position
\* were accepted, False when one was refused or the call raised
SyncOutcomes == {FALSE} \cup (IF ServerAccessValid(auth_token) THEN {TRUE} ELSE {})

\* GameScreen.update with both queues empty (the two queue handlers find
\* nothing): entity_manager.update_all runs Entity.update of the local player,
\* then the auto-sync test; a due auto-sync pushes if there is a token and
\* records the time in any case. needs_sync is neither read nor written by it.
UpdateFrame ==
    /\ gphase = "events"
    /\ GameThreadFree
    /\ world_joined
    /\ world_updates_queue = <<>>
    /\ world_entity_updates_queue = <<>>
    /\ \E fired \in SyncTimerOutcomes :
          /\ needs_sync' = (needs_sync \/ (localInStore /\ fired))
          /\ last_sync' = IF localInStore /\ fired THEN now ELSE last_sync
    /\ IF AutoSyncDue
       THEN /\ last_auto_sync' = now
            /\ IF auth_token # NoToken
               THEN \E ok \in SyncOutcomes :
                       last_push' = [dirty |-> needs_sync', success |-> ok, at |-> now]
               ELSE last_push' = last_push
       ELSE UNCHANGED <<last_auto_sync, last_push>>
    /\ UNCHANGED <<authVars, storeVars, streamVars>>
    /\ UNCHANGED <<session, workerVars, originVars, move_response>>

\* GameScreen._process_movement up to the call of the stub inside
\* grpc_client.move_player: the fields are written, the request is on the wire
MoveSubmit(target, movement_type) ==
    /\ gphase = "events"
    /\ GameThreadFree
    /\ world_joined
    /\ auth_token # NoToken
    /\ LET moved == [local_player EXCEPT
                        !.pos = target,
                        !.facing = FacingOf(target[1] - local_player.pos[1],
                                            target[2] - local_player.pos[2]),
                        !.mstate = movement_type]
       IN  SetWorld(WriteLocalPlayer(CurrentWorld, moved))
    /\ move_response' = "pending"
    /\ UNCHANGED <<world_joined, world_updates_running, world_entity_updates_running,
                   world_updates_queue, world_entity_updates_queue, gphase>>
    /\ UNCHANGED <<sent, authVars, streamVars>>
    /\ UNCHANGED <<session, workerVars, originVars, needs_sync, last_sync, last_auto_sync,
                   last_push>>

\* player_stub.MovePlayer returns or raises: _move_player_on_server adds a chat
\* message and _process_movement ends; no field of an entity is written
MoveReturn ==
    /\ move_response = "pending"
    /\ \E outcome \in MoveOutcomes : move_response' = outcome
    /\ UNCHANGED <<authVars, storeVars, streamVars>>
    /\ UNCHANGED <<session, workerVars, originVars, needs_sync, last_sync, last_auto_sync,
                   last_push>>

\* The same session with the request of a move and its answer as two steps.
InFlightSpec ==
    /\ SessionStart
    /\ [][\/ Tick
          \/ JoinWorld("Hero", LastProfile, <<>>)
          \/ \E target \in MoveTargets, mt \in {"walk", "run"} : MoveSubmit(target, mt)
          \/ MoveReturn
          \/ UpdateFrame]_vars

\* One session without traffic from the server: the player moves, frames go
\* by, the clock runs.
PredictionSpec ==
    /\ SessionStart
    /\ [][\/ Tick
          \/ JoinWorld("Hero", LastProfile, <<>>)
          \/ \E target \in MoveTargets, mt \in {"walk", "run"} : ProcessMovement(target, mt)
          \/ UpdateFrame]_vars

\* _ensure_jwt called by any other user of the client while the stored access
\* token is no longer valid and the renewal token is: the renewal succeeds and
\* the four stored fields are replaced. game.auth_token is not written.
EnsureJwtRenews ==
    /\ ~IsJwtValid
    /\ RefreshUsable
    /\ ServerRefreshValid(cred.refresh)
    /\ NextGen <= MaxGen
    /\ issuedAt' = [issuedAt EXCEPT ![NextGen] = now]
    /\ cred' = IssuedCred(NextGen, now)
    /\ UNCHANGED <<now, lock, connected, auth_token, pc, op, site, bearer, dispatches,
                   result, refreshResp, reqRefresh, ejRet, loginGen, startExpired>>
    /\ UNCHANGED <<storeVars, streamVars, sessVars>>

\* the polling workers that are inside their loop
PollWorkersRunning ==
    {s \in Sessions : poll_pc[s] \in {"top", "check", "call", "deliver", "sleep"}}

\* worker s hands a response of that kind over (PollDeliver)
PollHandsOver(s, kind) ==
    /\ poll_pc[s] = "deliver"
    /\ poll_pc'[s] = "sleep"
    /\ poll_resp[s].kind = kind

\* Sessions of the game screen: the game loop and the polling workers the
\* joins start, step by step, while the clock runs.
PollSessionNext ==
    \/ Tick
    \/ EnsureJwtRenews
    \/ GameLoopStep
    \/ \E s \in Sessions : PollStep(s)

PollSessionSpec == SessionStart /\ [][PollSessionNext]_vars

\* The game loop keeps running frames; a polling worker that can take a step
\* takes it (its request returns, its sleep ends), and a worker whose requests
\* the server can answer again and again is not refused for ever.
FairPollSessionSpec ==
    /\ PollSessionSpec
    /\ WF_vars(BeginUpdate \/ ProcessWorldUpdatesQueue \/ ProcessWorldEntityUpdates)
    /\ \A s \in Sessions : WF_vars(PollStep(s))
    /\ \A s \in Sessions : SF_vars(PollCall(s) /\ poll_resp'[s].kind = "state")

\* The same sessions with the streaming workers.
StreamSessionNext ==
    \/ GameLoopStep
    \/ \E s \in Sessions : StreamWorkerLoop(s)

StreamSessionSpec == SessionStart /\ [][StreamSessionNext]_vars

\* The game loop keeps running frames and a streaming worker that holds a
\* message handles it. Nothing obliges the server to send a message on the
\* stream or to accept a subscription.
FairStreamSessionSpec ==
    /\ StreamSessionSpec
    /\ WF_vars(BeginUpdate \/ ProcessWorldUpdatesQueue \/ ProcessWorldEntityUpdates)
    /\ \A s \in Sessions : WF_vars(StreamWorkerHandle(s))

\* The game screen opens with no credential loaded.
StoreStart ==
    /\ Init
    /\ cred = EmptyCred

\* The game loop and the two workers over the entity store.
StoreSpec == StoreStart /\ [][StoreNext]_vars

\* ================================================================ claims
\* C1: applying a player snapshot or an entity diff from the server never
\* changes the local player's position, facing or movement state, whatever
\* identifiers and display names the entries carry.
C1_LocalPlayerImmune ==
    [][(ProcessWorldUpdatesQueue \/ ProcessWorldEntityUpdates)
          => /\ local_player'.pos = local_player.pos
             /\ local_player'.facing = local_player.facing
             /\ local_player'.mstate = local_player.mstate]_vars

AuthErrors == {"UNAUTHENTICATED", "AuthExpired"}

\* C2: Token renewal transparency.  An authenticated call (interact, move) that
\* starts with an expired access token and a renewal token that is usable and
\* accepted by the auth service (and still is when the call ends) ends without
\* an auth error for its caller, and ends OK when the service answers nothing
\* but OK or an auth rejection.
C2_RenewalTransparent ==
    \A t \in Threads :
        (/\ pc[t] = "done"
         /\ op[t] \in {"interact", "move"}
         /\ startExpired[t]
         /\ RefreshUsable
         /\ ServerRefreshValid(cred.refresh)
         /\ refreshResp[t] \notin {"fail", "error"})
        => /\ result[t] \notin AuthErrors
           /\ (\A i \in 1..Len(dispatches[t]) :
                   dispatches[t][i].status \in {"OK", "UNAUTHENTICATED"})
              => result[t] = "OK"

\* C3: _ensure_jwt returns the stored access token, without a renewal call,
\* exactly when a token is stored and now < access_expiry - skew; on that path
\* the credential is unchanged (and the lock released).
C3_FastPathExactlyWhenValid ==
    [][\A t \in Threads :
          (pc[t] = "ej_check" /\ pc'[t] # "ej_check") =>
              LET valid == cred.jwt # NoToken /\ now < cred.jwtExp - JwtSkew
                  fast == /\ ejRet'[t] > 0
                          /\ ejRet'[t] = cred.jwt
                          /\ refreshResp'[t] = "none"
              IN  /\ fast <=> valid
                  /\ valid => (cred' = cred /\ lock' = NoThread)]_vars

C3_Witness ==
    \E t \in Threads :
        /\ pc[t] = "cw_dispatch"
        /\ ejRet[t] = cred.jwt
        /\ ejRet[t] > 0
        /\ refreshResp[t] = "none"

\* C4: after a successful renewal (the four fields replaced by the response's
\* values), _ensure_jwt returns the new access token to its caller.
C4_RenewalReturnsNewToken ==
    \A t \in Threads :
        (refreshResp[t] = "ok") ~> (ejRet[t] > 0 /\ ejRet[t] = cred.jwt)

\* C5: when _ensure_jwt fails (renewal rejected or raising, or no usable
\* renewal token) it raises to its caller and leaves the four credential fields
\* unchanged; without a usable renewal token it fails without a renewal call.
C5_FailureLeavesCredential ==
    [][\A t \in Threads :
          /\ (ejRet[t] # -1 /\ ejRet'[t] = -1) => cred' = cred
          /\ (pc[t] = "ej_rpc" /\ refreshResp'[t] \in {"fail", "error"})
                => (ejRet'[t] = -1 /\ cred' = cred)
          /\ (/\ pc[t] = "ej_check" /\ pc'[t] # "ej_check"
              /\ ~(cred.jwt # NoToken /\ now < cred.jwtExp - JwtSkew)
              /\ ~(cred.refresh # NoToken /\ now < cred.refreshExp - RefreshSkew))
                => (ejRet'[t] = -1 /\ refreshResp'[t] = "none" /\ cred' = cred)]_vars

C5_Witness ==
    \E t \in Threads :
        /\ ejRet[t] = -1
        /\ refreshResp[t] = "fail"
        /\ cred.refresh # NoToken

\* C6: when a second thread calls _ensure_jwt while the first has renewed the
\* credential, the second waits for the lock and then returns a token.
C6_WaitersReuseRenewal ==
    \A t \in Threads : \A u \in Threads \ {t} :
        (refreshResp[t] = "ok" /\ lock = t /\ pc[u] = "ej_lock") ~> (ejRet[u] > 0)

\* C7: every read and write of the credential fields happens with the
\* credential lock held by the accessing thread.
CredentialAccessPcs == {"ej_check", "ej_rpc", "login_store", "logout_check", "clear"}

C7_CredentialAccessUnderLock ==
    \A t \in Threads : pc[t] \in CredentialAccessPcs => lock = t

\* C8 (as stated): _call_with_retry dispatches at most twice, and after an
\* UNAUTHENTICATED first response it retries exactly once.
C8_RetriesExactlyOnce ==
    \A t \in Threads :
        (op[t] = "interact" /\ pc[t] = "done") =>
            /\ Len(dispatches[t]) <= 2
            /\ (Len(dispatches[t]) >= 1 /\ dispatches[t][1].status = "UNAUTHENTICATED")
                  => Len(dispatches[t]) = 2

\* C8 (amended): _call_with_retry dispatches at most twice; a second dispatch
\* happens only after an UNAUTHENTICATED first response; when the call ends
\* after a single UNAUTHENTICATED dispatch, the token fetch before the retry
\* raised and that error is what the caller gets; the retry's outcome, a second
\* auth rejection included, is handed to the caller without further dispatch.
C8_RetryAtMostOnce ==
    \A t \in Threads :
        op[t] = "interact" =>
            /\ Len(dispatches[t]) <= 2
            /\ Len(dispatches[t]) = 2 => dispatches[t][1].status = "UNAUTHENTICATED"
            /\ (pc[t] = "done" /\ Len(dispatches[t]) = 1
                /\ dispatches[t][1].status = "UNAUTHENTICATED")
                  => (ejRet[t] = -1 /\ result[t] = "AuthExpired")
            /\ Len(dispatches[t]) = 2
                  => (pc[t] = "done" /\ result[t] = dispatches[t][2].status)

C8_Witness ==
    \E t \in Threads :
        /\ op[t] = "interact"
        /\ pc[t] = "done"
        /\ Len(dispatches[t]) = 2
        /\ dispatches[t][2].status = "UNAUTHENTICATED"
        /\ result[t] = "UNAUTHENTICATED"

\* C9: the retried request carries a freshly renewed access token, not the
\* token the server just rejected: a renewal happened between the dispatches.
C9_RetryCarriesRenewedToken ==
    \A t \in Threads :
        (op[t] = "interact" /\ Len(dispatches[t]) = 2) =>
            /\ dispatches[t][2].tok # dispatches[t][1].tok
            /\ refreshResp[t] = "ok"

\* C10: a transient failure of a _call_with_retry dispatch is never followed by
\* another dispatch: it ends the call and is the error the caller gets; a
\* transient first response means the request was dispatched exactly once.
C10_TransientNotRetried ==
    \A t \in Threads :
        op[t] = "interact" =>
            \A i \in 1..Len(dispatches[t]) :
                dispatches[t][i].status \in Transient =>
                    /\ i = Len(dispatches[t])
                    /\ pc[t] = "done"
                    /\ result[t] = dispatches[t][i].status

C10_Witness ==
    \E t \in Threads :
        /\ op[t] = "interact"
        /\ pc[t] = "done"
        /\ Len(dispatches[t]) = 1
        /\ dispatches[t][1].status = "UNAVAILABLE"
        /\ result[t] = "UNAVAILABLE"

\* A step of the stream's handler for a transient RpcError: the backoff is computed.
TransientFailureStep ==
    /\ pc[StreamThread] # "st_backoff"
    /\ pc'[StreamThread] = "st_backoff"
    /\ sleep'.kind = "transient"

\* C17: every delay the streaming loop sleeps after a transient failure,
\* jitter included, is at most the ceiling of 5.0 s, and the delays of
\* consecutive transient failures (no message in between) never decrease.
C17_BackoffBoundedMonotone ==
    [][TransientFailureStep =>
          /\ sleep'.slept <= BackoffCeiling
          /\ sleep.kind = "transient" => sleep'.slept >= sleep.slept]_vars

\* C18: for consecutive transient stream failures with no message in between,
\* the delay before jitter doubles from one failure to the next, up to the
\* ceiling (base, 2*base, 4*base, ...).
C18_BackoffDoubles ==
    [][(TransientFailureStep /\ sleep.kind = "transient") =>
          sleep'.raw = Min(BackoffCeiling, 2 * sleep.raw)]_vars

\* C19: the stream's consecutive-failure counter goes back to zero only when
\* a message is received, not when a reconnect attempt receives none: a
\* transient failure that follows a transient failure with no message in
\* between finds the counter where the earlier failure left it and adds one.
C19_CounterResetOnlyByMessage ==
    [][/\ (/\ op[StreamThread] = "stream" /\ op'[StreamThread] = "stream"
           /\ consecutive_errors > 0 /\ consecutive_errors' = 0)
          => (pc[StreamThread] = "st_stream" /\ pc'[StreamThread] = "st_stream")
       /\ (TransientFailureStep /\ sleep.kind = "transient")
          => consecutive_errors' = Min(consecutive_errors + 1, MaxErrors)]_vars

\* C20: the streaming loop retries after an auth rejection only a bounded
\* number of consecutive times: the rejections in a row that it answers with
\* another attempt stay below a bound (here every bound the model counts to).
C20_AuthRetriesBounded ==
    auth_retries < MaxAuthRetries

\* ------------------------------------------------------------------ C11
\* a snapshot that lists every player id at most once
WellFormedRoster(r) ==
    \A i, j \in 1..Len(r) : r[i].id = r[j].id => i = j

\* _apply_player_updates called twice in succession with the same snapshot
\* leaves what one call leaves
IdempotentOn(w, r) ==
    ApplyPlayerUpdates(ApplyPlayerUpdates(w, r), r) = ApplyPlayerUpdates(w, r)

\* C11 (as stated): for every EntityStore state and every full-roster
\* snapshot, applying the snapshot twice in succession with
\* _apply_player_updates yields the same EntityStore as applying it once.
C11_Idempotent ==
    \A r \in Rosters : IdempotentOn(CurrentWorld, r)

\* C11 (amended): the same, for every snapshot that lists each player id at
\* most once.
C11_IdempotentOnDistinctIds ==
    \A r \in Rosters : WellFormedRoster(r) => IdempotentOn(CurrentWorld, r)

\* the game loop has just applied a snapshot, a remote player is in the
\* store, and some snapshot of two distinct players both removes that player
\* and creates another one
C11_Witness ==
    /\ gphase = "entities"
    /\ \E r \in Rosters, a, b \in RemotePlayerIds :
          /\ Len(r) = 2
          /\ WellFormedRoster(r)
          /\ HasEntity(CurrentWorld, a)
          /\ ~HasEntity(CurrentWorld, b)
          /\ ~HasEntity(ApplyPlayerUpdates(CurrentWorld, r), a)
          /\ HasEntity(ApplyPlayerUpdates(CurrentWorld, r), b)

\* ------------------------------------------------------------------ C12
\* the snapshot and the diff carry the same data about every player: a
\* player the diff updates is listed online in the snapshot with the same
\* name, position, facing, movement state and health, and a player the diff
\* removes is not online in the snapshot
SameAuthoritativeData(r, u) ==
    /\ \A k \in 1..Len(u.removed_entity_ids) :
          \A i \in 1..Len(r) :
             u.removed_entity_ids[k] = PlayerEntityId(r[i].id) => ~r[i].is_online
    /\ \A k \in 1..Len(u.updated_entities) :
          LET d == u.updated_entities[k] IN
          StartsWithPlayer(d.id) =>
             \E i \in 1..Len(r) :
                /\ d.id = PlayerEntityId(r[i].id)
                /\ r[i].is_online
                /\ d.name = r[i].name
                /\ d.pos = r[i].pos
                /\ d.facing = r[i].facing
                /\ d.mstate = r[i].mstate
                /\ d.hp = r[i].hp

\* the store once the game loop has applied the snapshot and then the diff
\* (both queued before the same tick, GameScreen.update 767-771)
SnapshotThenDiff(w, r, u) == ApplyStreamUpdate(ApplyPlayerUpdates(w, r), u).store

\* the store once the diff was applied in one tick and the snapshot, which
\* arrived later, in the next
DiffThenSnapshot(w, r, u) == ApplyPlayerUpdates(ApplyStreamUpdate(w, u), r).store

\* C12: two runs that deliver the same snapshot and the same diff, and that
\* differ only in which of the two the game loop applies first, end with the
\* same EntityStore.
C12_ConvergesInAnyOrder ==
    (world_updates_queue # <<>> /\ world_entity_updates_queue # <<>>) =>
        LET r == Head(world_updates_queue)
            u == Head(world_entity_updates_queue) IN
        (WellFormedRoster(r) /\ SameAuthoritativeData(r, u)) =>
            SnapshotThenDiff(CurrentWorld, r, u) = DiffThenSnapshot(CurrentWorld, r, u)

\* ------------------------------------------------------------------ C13
\* the last update a drain of a queue took out of it
LastTaken(q, rest) == q[Len(q) - Len(rest)]

\* the snapshot reports the player offline, or does not list it
GoneInSnapshot(r, eid) ==
    \A i \in 1..Len(r) : PlayerEntityId(r[i].id) = eid => ~r[i].is_online

\* C13: a remote entity that a diff lists as removed, that a snapshot reports
\* offline, or that is absent from a full snapshot is no longer in the
\* EntityStore once the game loop has applied that update.
C13_RemovedMeansAbsent ==
    [][/\ (gphase = "entities" /\ gphase' = "events"
             /\ Len(world_entity_updates_queue') < Len(world_entity_updates_queue))
          => LET u == LastTaken(world_entity_updates_queue, world_entity_updates_queue') IN
             \A k \in 1..Len(u.removed_entity_ids) :
                u.removed_entity_ids[k] # LocalId => store'[u.removed_entity_ids[k]] = NoEntity
       /\ (gphase = "players" /\ gphase' = "entities" /\ world_updates_queue # <<>>)
          => LET r == LastTaken(world_updates_queue, <<>>) IN
             WellFormedRoster(r) =>
                \A eid \in RemotePlayerIds : GoneInSnapshot(r, eid) => store'[eid] = NoEntity
      ]_vars

\* ------------------------------------------------------------------ C14
\* the ids a sequence of removals lists
RemovedIds(u) == {u.removed_entity_ids[k] : k \in 1..Len(u.removed_entity_ids)}

\* C14: when the game loop applies a diff, every updated entity whose id is
\* not in the store is created (unless the same diff removes it), and a diff
\* that only removes ids that are not in the store leaves the store as it is.
C14_UnknownIdsHandled ==
    [][(gphase = "entities" /\ gphase' = "events" /\ Len(world_entity_updates_queue) = 1)
          => LET u == Head(world_entity_updates_queue) IN
             /\ \A k \in 1..Len(u.updated_entities) :
                   LET id == u.updated_entities[k].id IN
                   (store[id] = NoEntity /\ id \notin RemovedIds(u)) => store'[id] # NoEntity
             /\ (u.updated_entities = <<>> /\ \A id \in RemovedIds(u) : store[id] = NoEntity)
                   => store' = store
      ]_vars

\* ------------------------------------------------------------------ C15
\* how many entities the store holds under an identifier
EntitiesWithId(st, id) == Cardinality({k \in EntityIds : k = id /\ st[k] # NoEntity})

\* the entity ids a roster creates or updates for a local player of that
\* name: the players it lists online, and never offline, under another name
RosterTargets(r, local_name) ==
    {PlayerEntityId(r[i].id) : i \in {j \in 1..Len(r) :
        /\ r[j].is_online
        /\ r[j].name # local_name
        /\ \A k \in 1..Len(r) : r[k].id = r[j].id => r[k].is_online}}

\* the entity ids a diff creates or updates and does not remove
DiffTargets(u) ==
    {u.updated_entities[k].id : k \in 1..Len(u.updated_entities)} \ RemovedIds(u)

\* C15: the store never holds two entities under one identifier, and once a
\* join, a snapshot or a diff has created or updated an identifier the store
\* holds exactly one entity under it.
C15_ExactlyOnePerId ==
    [][/\ \A id \in EntityIds : EntitiesWithId(store', id) <= 1
       /\ (~world_joined /\ world_joined') => EntitiesWithId(store', LocalId) = 1
       /\ (gphase = "players" /\ gphase' = "entities" /\ world_updates_queue # <<>>)
          => \A id \in RosterTargets(LastTaken(world_updates_queue, <<>>), local_player.name) :
                EntitiesWithId(store', id) = 1
       /\ (/\ gphase = "entities" /\ gphase' = "events"
           /\ Len(world_entity_updates_queue) = 1
           /\ ~ApplyStreamUpdate(CurrentWorld, Head(world_entity_updates_queue)).raised)
          => \A id \in DiffTargets(Head(world_entity_updates_queue)) :
                EntitiesWithId(store', id) = 1
      ]_vars

\* a snapshot and then a diff, applied in one tick, have both written the
\* entity of player 1, which the diff found in the store
C15_Witness ==
    /\ gphase = "events"
    /\ world_joined
    /\ sent = MaxSent
    /\ world_updates_queue = <<>>
    /\ world_entity_updates_queue = <<>>
    /\ store[PlayerEntityId("1")].type = "player"
    /\ store[PlayerEntityId("1")].pos = <<0, 2>>
    /\ store[PlayerEntityId("1")].mstate = "walking"
    /\ store[MonsterId] = NoEntity

\* ------------------------------------------------------------------ C16
\* C16: in every reachable state entity_manager.local_player_id refers to an
\* entity that is in the store, the object GameScreen.local_player.
C16_LocalPlayerInStore ==
    /\ store[LocalId] # NoEntity
    /\ localInStore
    /\ store[LocalId] = local_player

\* ------------------------------------------------------------------ C21
\* C21: a streaming failure that is neither an auth rejection nor transient,
\* a failed token fetch included, makes the streaming loop exit; the loop
\* does not go on to another attempt.
C21_FatalFailureExits ==
    [][(/\ op[StreamThread] = "stream"
        /\ ejRet[StreamThread] # -1
        /\ ejRet'[StreamThread] = -1)      \* the token fetch of the loop raises
          => pc'[StreamThread] = "done"]_vars

\* ------------------------------------------------------------------ C22
\* C22: once the stop signal of the streaming worker of the first session is
\* set, the worker exits (or the signal is taken back), whether or not the
\* server sends another message.
C22_StreamWorkerStops ==
    (sw_pc[1] \in {"connecting", "waiting", "got"} /\ ~world_entity_updates_running)
        ~> (sw_pc[1] = "exited" \/ world_entity_updates_running)

C24_WorkersLeaveStoreAlone ==
    [][(\E s \in Sessions : poll_pc'[s] # poll_pc[s] /\ poll_pc[s] # "off")
          => (store' = store /\ local_player' = local_player)]_vars

\* ------------------------------------------------------------------ C29
\* C29: every successful world-state response, an empty roster included, is
\* put on the queue for the game loop and has no other effect.
C29_ResponsesGoThroughQueue ==
    [][\A s \in Sessions :
          PollHandsOver(s, "state") =>
             /\ world_updates_queue' = Append(world_updates_queue, poll_resp[s].players)
             /\ store' = store]_vars

\* ------------------------------------------------------------------ C25
\* C25: the game loop never applies an update that a worker fetched during
\* an earlier session, and no worker writes such a response into the store.
C25_NoStaleUpdates ==
    [][/\ (gphase = "players" /\ gphase' = "entities")
          => \A i \in 1..Len(updates_origin) : updates_origin[i] = session
       /\ (gphase = "entities" /\ gphase' = "events")
          => \A i \in 1..Len(entity_updates_origin) : entity_updates_origin[i] = session
       /\ \A s \in Sessions :
             (poll_pc[s] = "deliver" /\ poll_pc'[s] = "sleep" /\ store' # store)
                => poll_resp[s].fetched_in = session
      ]_vars

\* ------------------------------------------------------------------ C30
\* C30: once the access token has expired while the renewal token is valid,
\* a polling loop that keeps running later receives a world state again.
C30_PollingRecovers ==
    (/\ 1 \in PollWorkersRunning
     /\ world_updates_running
     /\ auth_token # NoToken
     /\ ~ServerAccessValid(auth_token)
     /\ ServerRefreshValid(cred.refresh))
        ~> \/ poll_resp[1].kind = "state"
           \/ ~world_updates_running
           \/ ~ServerRefreshValid(cred.refresh)

\* ------------------------------------------------------------------ C26
\* C26: a move that the server rejects, or whose call raises, leaves the
\* local player at the target of the move.
C26_FailedMoveNotRolledBack ==
    [][\A target \in MoveTargets, mt \in {"walk", "run"} :
          (ProcessMovement(target, mt) /\ move_response' \in MoveFailures)
             => (local_player'.pos = target /\ store'[LocalId].pos = target)]_vars

C26_Witness ==
    /\ move_response \in {"rejected", "raised"}
    /\ local_player.pos \in MoveTargets
    /\ store[LocalId].pos = local_player.pos

\* ------------------------------------------------------------------ C27
\* C27: a move writes position = target, facing = the direction of the delta
\* from the old position, movement state = the requested mode, and sets the
\* dirty flag of the local player, whatever the server answers.
C27_MoveWritesAndMarksDirty ==
    [][\A target \in MoveTargets, mt \in {"walk", "run"} :
          ProcessMovement(target, mt)
             => /\ local_player'.pos = target
                /\ local_player'.facing = FacingOf(target[1] - local_player.pos[1],
                                                   target[2] - local_player.pos[2])
                /\ local_player'.mstate = mt
                /\ needs_sync']_vars

\* ------------------------------------------------------------------ C28
\* C28: auto-sync pushes only when the dirty flag is set; the flag goes from
\* set to clear only in a push that succeeded; after a failed push of dirty
\* state it is still set.
C28_AutoSyncFollowsDirtyFlag ==
    [][LET pushed == last_push' # last_push IN    \* the auto-sync of this frame pushed
       /\ pushed => last_push'.dirty
       /\ (needs_sync /\ ~needs_sync') => (pushed /\ last_push'.success)
       /\ (pushed /\ last_push'.dirty /\ ~last_push'.success) => needs_sync']_vars

\* ------------------------------------------------------------------ C31
\* C31: while the polling flag is set at most one polling worker is in its
\* loop, whatever joins, leaves and rejoins came before.
C31_OneWorkerOfEachKind ==
    world_updates_running => Cardinality(PollWorkersRunning) <= 1

\* ------------------------------------------------------------------ C32
\* C32: while the server call of a move is in flight the game loop can run
\* a further frame.
C32_MoveDoesNotBlock ==
    move_response = "pending" => ENABLED UpdateFrame

\* ------------------------------------------------------------------ C33
\* the first k updates of a queue applied one after the other, by position
RECURSIVE PlayerUpdatesInOrder(_, _, _)
PlayerUpdatesInOrder(w, q, k) ==
    IF k = 0 THEN w
    ELSE ApplyPlayerUpdates(PlayerUpdatesInOrder(w, q, k - 1), q[k])

RECURSIVE EntityUpdatesInOrder(_, _, _)
EntityUpdatesInOrder(w, q, k) ==
    IF k = 0 THEN w
    ELSE ApplyStreamUpdate(EntityUpdatesInOrder(w, q, k - 1), q[k])

\* C33: a frame applies the updates of each queue in the order they were
\* queued, each of them once and to its end: none is reordered, duplicated
\* or skipped.
C33_AppliedInQueueOrder ==
    [][/\ ProcessWorldUpdatesQueue
            => SetWorld(PlayerUpdatesInOrder(CurrentWorld, world_updates_queue,
                                             Len(world_updates_queue)))
       /\ ProcessWorldEntityUpdates
            => LET q == world_entity_updates_queue
                   taken == Len(q) - Len(world_entity_updates_queue')
                   w == EntityUpdatesInOrder(CurrentWorld, q, taken) IN
               /\ world_entity_updates_queue' = SubSeq(q, taken + 1, Len(q))
               /\ SetWorld(w)
               /\ ~w.raised]_vars

\* ------------------------------------------------------------------ C34
\* C34: after a snapshot every entry that is online and is not the local
\* player by identifier is in the store at the roster's position, also when
\* its display name is the local player's.
C34_OnlineEntriesPresent ==
    [][(/\ ProcessWorldUpdatesQueue
        /\ Len(world_updates_queue) = 1
        /\ WellFormedRoster(world_updates_queue[1])) =>
          LET players == world_updates_queue[1] IN
          \A i \in 1..Len(players) :
             (players[i].is_online /\ PlayerEntityId(players[i].id) # LocalId)
                => /\ store'[PlayerEntityId(players[i].id)] # NoEntity
                   /\ store'[PlayerEntityId(players[i].id)].pos = players[i].pos]_vars

\* ------------------------------------------------------------------ C35
\* C35: when a logout returns, the access token, the renewal token and both
\* expiries are empty, whatever the connection attempt and the server's
\* Logout call did.
C35_LogoutClearsCredential ==
    [][(/\ op[GameThread] = "logout"
        /\ pc[GameThread] # "done"
        /\ pc'[GameThread] = "done") => cred' = EmptyCred]_vars

\* ------------------------------------------------------------------ C36
\* C36: right after a successful join the local player's position, facing,
\* movement state and stats are those of the joinWorld snapshot, and no other
\* application of server data (snapshot or diff) changes them.
C36_JoinIsTheOnlyResync ==
    [][LET Fields(e) == [pos |-> e.pos, facing |-> e.facing, mstate |-> e.mstate,
                         hp |-> e.hp, level |-> e.level] IN
       /\ (~world_joined /\ world_joined') => Fields(local_player') = Fields(LastProfile)
       /\ (ProcessWorldUpdatesQueue \/ ProcessWorldEntityUpdates)
             => Fields(local_player') = Fields(local_player)]_vars

\* ------------------------------------------------------------------ C37
\* class MovementState(Enum): the members, and the strings that are their values
MovementStateNames == {"IDLE", "WALKING", "RUNNING", "ATTACKING", "DEAD",
                       "idle", "walking", "running", "attacking", "dead"}

\* C37: the movement state of the local player and of every entity in the
\* store is one of the enumerated states (the member, or at least the string
\* that is a member's value).
C37_MovementStateEnumerated ==
    /\ local_player.mstate \in MovementStateNames
    /\ \A id \in EntityIds :
          store[id] # NoEntity
             => store[id].mstate \in MovementStateNames

\* ------------------------------------------------------------------ C38
\* C38: every call of _ensure_jwt comes to an end, returning or raising, and
\* the caller does not hold the credential lock afterwards.
C38_EnsureJwtTerminates ==
    LET InEnsureJwt(t) == pc[t] \in {"ej_lock", "ej_check", "ej_rpc", "ej_save"} IN
    \A t \in Threads : InEnsureJwt(t) ~> (~InEnsureJwt(t) /\ lock # t)

\* ------------------------------------------------------------------ C39
\* C39: a world-state request that failed leaves the EntityStore as it was;
\* no remote player is removed because of it.
C39_FailedPollKeepsStore ==
    [][\A s \in Sessions : PollHandsOver(s, "failed") => store' = store]_vars

\* ------------------------------------------------------------------ C40
\* C40: the effect of a world state never reaches the store while a world
\* state received before it is still waiting to be applied.
C40_ResultsTakeEffectInOrder ==
    [][\A s \in Sessions :
          (PollHandsOver(s, "state") /\ poll_resp[s].players = <<>>)
             => world_updates_queue = <<>>]_vars

====
